---- MODULE Spec2Model ----
(***************************************************************************)
(* Assumed Density Filtering for online logistic regression                *)
(* (scripts/adf_logistic_regression_demo.py).                              *)
(*                                                                         *)
(* The filter state is the pair (mu_t, tau_t) of a diagonal Gaussian.  The *)
(* driver is jax.lax.scan(adf_loop, init_state, (Phi, y)): it checks that  *)
(* the scanned arrays share their leading axis, then applies adf_step to   *)
(* the rows in order, threading the carry and stacking the emitted pairs.  *)
(*                                                                         *)
(* Floating-point numbers are modelled as exact extended rationals <<n,d>> *)
(* with d >= 0: d > 0 is the finite value n/d in lowest terms, <<1,0>> and *)
(* <<-1,0>> are +inf and -inf, <<0,0>> is NaN.  Rounding is not modelled.  *)
(* The Romberg quadrature of the transcendental integrands is not          *)
(* computable here; its three results are drawn from a small set of        *)
(* well-posed outcomes when the predictive variance is finite and          *)
(* positive, and are what IEEE arithmetic yields (NaN, or 0 for an         *)
(* infinite scale) otherwise.                                              *)
(***************************************************************************)
EXTENDS Integers, Sequences, FiniteSets, TLC

VARIABLES Phi, y, prior_variance, mu_t, tau_t, mu_t_hist, tau_t_hist, i, pc, err, frame

vars == <<Phi, y, prior_variance, mu_t, tau_t, mu_t_hist, tau_t_hist, i, pc, err, frame>>

\* ---------------------------------------------------------------- bounds
MaxN == 2
MaxNoise == 1

\* ------------------------------------------------- extended rationals
NaN == <<0, 0>>
PosInf == <<1, 0>>

Sign(n) == IF n > 0 THEN 1 ELSE IF n < 0 THEN -1 ELSE 0

Abs(n) == IF n < 0 THEN -n ELSE n

RECURSIVE Gcd(_, _)
Gcd(a, b) == IF b = 0 THEN a ELSE Gcd(b, a % b)

Norm(n, d) ==
  IF d = 0 THEN <<Sign(n), 0>>
  ELSE LET g == Gcd(Abs(n), Abs(d))
           s == Sign(d)
       IN  <<(s * n) \div g, (s * d) \div g>>

FromInt(n) == <<n, 1>>

Neg(a) == <<-a[1], a[2]>>

Add(a, b) ==
  IF a[2] = 0 /\ b[2] = 0
  THEN (IF a[1] = b[1] THEN a ELSE NaN)
  ELSE IF a[2] = 0 THEN a
  ELSE IF b[2] = 0 THEN b
  ELSE LET g == Gcd(a[2], b[2])
       IN  Norm(a[1] * (b[2] \div g) + b[1] * (a[2] \div g),
                (a[2] \div g) * b[2])

Sub(a, b) == Add(a, Neg(b))

Mul(a, b) ==
  IF a[2] = 0 \/ b[2] = 0 THEN <<Sign(a[1] * b[1]), 0>>
  ELSE LET g1 == Gcd(Abs(a[1]), b[2])
           g2 == Gcd(Abs(b[1]), a[2])
       IN  Norm((a[1] \div g1) * (b[1] \div g2),
                (a[2] \div g2) * (b[2] \div g1))

Recip(b) ==
  IF b[1] = 0 THEN <<Sign(b[2]), 0>>
  ELSE <<Sign(b[1]) * b[2], Abs(b[1])>>

Div(a, b) == Mul(a, Recip(b))

IsFinite(a) == a[2] > 0

IsPos(a) == a[2] > 0 /\ a[1] > 0

\* ------------------------------------------------------------ vectors
VMul(u, v) == [k \in DOMAIN u |-> Mul(u[k], v[k])]

VAdd(u, v) == [k \in DOMAIN u |-> Add(u[k], v[k])]

VScale(u, c) == [k \in DOMAIN u |-> Mul(u[k], c)]

VShift(u, c) == [k \in DOMAIN u |-> Add(u[k], c)]

VDivS(u, c) == [k \in DOMAIN u |-> Div(u[k], c)]

RECURSIVE SumTo(_, _)
SumTo(u, k) == IF k = 0 THEN FromInt(0) ELSE Add(SumTo(u, k - 1), u[k])

VSum(u) == SumTo(u, Len(u))

\* ------------------------------------------------------------- inputs
\* Feature rows of the demo's design matrix (bias, feature), with the
\* degenerate all-zero row and a row that loads a single coordinate.
FeatureRows ==
  { <<FromInt(0), FromInt(0)>>, <<FromInt(1), FromInt(-1)>>,
    <<FromInt(1), FromInt(0)>>, <<FromInt(1), FromInt(1)>> }

ndims == Len(CHOOSE r \in FeatureRows : TRUE)

Labels == {0, 1}

SeqsUpTo(S, n) == UNION { [1..k -> S] : k \in 0..n }

zeros(n) == [k \in 1..n |-> FromInt(0)]

ones(n) == [k \in 1..n |-> FromInt(1)]

\* --------------------------------------------------------- quadrature
\* Abstract results of the three integrate.romb calls.  For a finite,
\* positive predictive variance v the normaliser is positive and the
\* matched moments are M = m +/- shift (towards the label) and
\* V = shrink * v with 0 < shrink < 1.
Shifts == { <<1, 2>> }

Shrinks == { <<1, 2>>, <<3, 4>> }

RombChoices == Shifts \X Shrinks

\* Zt = romb(Zt_func): NaN when the scale sqrt(v) is 0 or NaN (logpdf is
\* -inf + inf), 0 when the scale is infinite (the density underflows).
Zt_romb(v) ==
  IF IsPos(v) THEN <<1, 2>>
  ELSE IF v = PosInf THEN FromInt(0)
  ELSE NaN

\* romb(mt_func(..., Zt)): the integrand is eta * exp(log_term) / Zt.
mt_romb(y_t, m, v, Zt, q) ==
  LET M == Add(m, Mul(FromInt(2 * y_t - 1), q[1]))
      raw == IF IsPos(v) THEN Mul(<<1, 2>>, M)
             ELSE IF v = PosInf THEN FromInt(0)
             ELSE NaN
  IN  Div(raw, Zt)

\* romb(vt_func(..., Zt)): the integrand is eta^2 * exp(log_term) / Zt.
vt_romb(y_t, m, v, Zt, q) ==
  LET M == Add(m, Mul(FromInt(2 * y_t - 1), q[1]))
      raw == IF IsPos(v) THEN Mul(<<1, 2>>, Add(Mul(q[2], v), Mul(M, M)))
             ELSE IF v = PosInf THEN FromInt(0)
             ELSE NaN
  IN  Div(raw, Zt)

\* ----------------------------------------------------------- adf_step
gain_unnormalised(Phi_t, tau_t_cond) == VMul(Phi_t, tau_t_cond)

\* a = Phi_t * tau_t_cond / (Phi_t ** 2 * tau_t_cond).sum()
gain(Phi_t, tau_t_cond) ==
  VDivS(VMul(Phi_t, tau_t_cond), VSum(VMul(VMul(Phi_t, Phi_t), tau_t_cond)))

\* The body of adf_step up to its return statement: every local it binds.
adf_locals(state, xs, pv, q) ==
  LET mu_in == state[1]
      tau_in == state[2]
      Phi_t == xs[1]
      y_t == xs[2]
      mu_t_cond == mu_in
      tau_t_cond == VShift(tau_in, pv)
      m_t_cond == VSum(VMul(Phi_t, mu_t_cond))
      v_t_cond == VSum(VMul(VMul(Phi_t, Phi_t), tau_t_cond))
      Zt == Zt_romb(v_t_cond)
      mt == mt_romb(y_t, m_t_cond, v_t_cond, Zt, q)
      vt == Sub(vt_romb(y_t, m_t_cond, v_t_cond, Zt, q), Mul(mt, mt))
      delta_m == Sub(mt, m_t_cond)
      delta_v == Sub(vt, v_t_cond)
      a == gain(Phi_t, tau_t_cond)
      mu_new == VAdd(mu_t_cond, VScale(a, delta_m))
      tau_new == VAdd(tau_t_cond, VScale(VMul(a, a), delta_v))
  IN  [state_in |-> state, Phi_t |-> Phi_t, y_t |-> y_t,
       tau_t_cond |-> tau_t_cond, m_t_cond |-> m_t_cond,
       v_t_cond |-> v_t_cond, Zt |-> Zt, mt |-> mt, vt |-> vt, a |-> a,
       mu_t |-> mu_new, tau_t |-> tau_new]

adf_step_stale_output(state, xs, pv, q) ==
  LET L == adf_locals(state, xs, pv, q)
  IN  [carry |-> <<L.mu_t, L.tau_t>>, out |-> state] @@ L

\* return (mu_t, tau_t), (mu_t, tau_t): the new carry and the emitted pair.
adf_step(state, xs, pv, q) ==
  LET L == adf_locals(state, xs, pv, q)
  IN  [carry |-> <<L.mu_t, L.tau_t>>, out |-> <<L.mu_t, L.tau_t>>] @@ L

\* --------------------------------------------------------------- scan
LeadingAxesAtMost(P, l) == Len(P) <= Len(l)

\* jax.lax.scan refuses scanned arrays whose leading axes differ.
LeadingAxesAgree(P, l) == Len(P) = Len(l)

ScanRowReversed(k, n) == n - k + 1

\* Row consumed by the k-th iteration (1-based) of a scan over n rows.
ScanRow(k, n) == k

ScanInitOutWithCarry(init) == <<init>>

\* The stacked outputs before the first iteration.
ScanInitOut(init) == << >>

NoFrame ==
  [row |-> 0, carry |-> <<zeros(ndims), ones(ndims)>>,
   out |-> <<zeros(ndims), ones(ndims)>>,
   state_in |-> <<zeros(ndims), ones(ndims)>>, Phi_t |-> zeros(ndims),
   y_t |-> 0, tau_t_cond |-> ones(ndims), m_t_cond |-> FromInt(0),
   v_t_cond |-> FromInt(0), Zt |-> FromInt(0), mt |-> FromInt(0),
   vt |-> FromInt(0), a |-> zeros(ndims), mu_t |-> zeros(ndims),
   tau_t |-> ones(ndims)]

Init ==
  /\ Phi \in SeqsUpTo(FeatureRows, MaxN)
  /\ y \in SeqsUpTo(Labels, MaxN)
  /\ prior_variance \in { FromInt(n) : n \in 0..MaxNoise }
  /\ mu_t = zeros(ndims)
  /\ tau_t = VScale(ones(ndims), FromInt(1))
  /\ mu_t_hist = ScanInitOut(mu_t)
  /\ tau_t_hist = ScanInitOut(tau_t)
  /\ i = 0
  /\ pc = "start"
  /\ err = "none"
  /\ frame = NoFrame

\* jax.lax.scan entry: the leading-axis check, before any call of the body.
ScanReject ==
  /\ pc = "start"
  /\ ~LeadingAxesAgree(Phi, y)
  /\ pc' = "error"
  /\ err' = "ShapeMismatchError"
  /\ UNCHANGED <<Phi, y, prior_variance, mu_t, tau_t, mu_t_hist, tau_t_hist, i, frame>>

ScanEnter ==
  /\ pc = "start"
  /\ LeadingAxesAgree(Phi, y)
  /\ pc' = "scan"
  /\ UNCHANGED <<Phi, y, prior_variance, mu_t, tau_t, mu_t_hist, tau_t_hist, i, err, frame>>

\* One iteration of the scan: adf_loop on the carry and the next row.
ScanStep ==
  /\ pc = "scan"
  /\ i < Len(Phi)
  /\ \E q \in RombChoices :
       LET k == ScanRow(i + 1, Len(Phi))
       IN  frame' = [row |-> k] @@
                    adf_step(<<mu_t, tau_t>>, <<Phi[k], y[k]>>, prior_variance, q)
  /\ mu_t' = frame'.carry[1]
  /\ tau_t' = frame'.carry[2]
  /\ mu_t_hist' = Append(mu_t_hist, frame'.out[1])
  /\ tau_t_hist' = Append(tau_t_hist, frame'.out[2])
  /\ i' = i + 1
  /\ UNCHANGED <<Phi, y, prior_variance, pc, err>>

\* The scan returns the final carry and the stacked outputs.
ScanReturn ==
  /\ pc = "scan"
  /\ i = Len(Phi)
  /\ pc' = "done"
  /\ UNCHANGED <<Phi, y, prior_variance, mu_t, tau_t, mu_t_hist, tau_t_hist, i, err, frame>>

Next == ScanReject \/ ScanEnter \/ ScanStep \/ ScanReturn

Spec == Init /\ [][Next]_vars

\* ------------------------------------------------------------ helpers
Stepped == pc \in {"scan", "done"} /\ i >= 1

InitState == <<zeros(ndims), ones(ndims)>>

AllPos(v) == \A k \in DOMAIN v : IsPos(v[k])

ShapesMismatch ==
  \/ Len(Phi) # Len(y)
  \/ \E k \in DOMAIN Phi : Len(Phi[k]) # Len(mu_t)

\* ------------------------------------------------------------- claims

\* C1: the driver applies adf_step to the rows in strict index order, once
\* per row and N times in total: the first step receives the initial state
\* (mean 0, variance ones), the k-th step consumes row k and label k, each
\* step receives the state the previous step returned, and the scan only
\* returns after N steps.
C1_StrictOrder ==
  /\ [](/\ (pc = "scan" /\ i = 0 => <<mu_t, tau_t>> = InitState)
        /\ (pc \in {"scan", "done"} => i <= Len(Phi))
        /\ (pc = "done" => i = Len(Phi))
        /\ (Stepped => /\ frame.row = i
                       /\ frame.Phi_t = Phi[i]
                       /\ frame.y_t = y[i]))
  /\ [][i' # i => /\ i' = i + 1
                  /\ frame'.row = i'
                  /\ frame'.state_in = <<mu_t, tau_t>>
                  /\ <<mu_t', tau_t'>> = frame'.carry]_vars

C1_Witness ==
  /\ pc = "done"
  /\ i = 2
  /\ Phi[1] # Phi[2]
  /\ frame.row = 2
  /\ frame.state_in # InitState

\* C2 (as stated): a completed run over N observations of dimension D has
\* mean and variance histories of N+1 rows of length D, the initial state
\* being the first row.
C2_HistoryHasNPlus1Rows ==
  pc = "done" =>
    /\ Len(mu_t_hist) = Len(Phi) + 1
    /\ Len(tau_t_hist) = Len(Phi) + 1
    /\ <<mu_t_hist[1], tau_t_hist[1]>> = InitState

\* C2 (amended): the histories hold one row of length D per processed
\* observation and nothing else: i rows after i steps, N rows at the end;
\* the initial state is not among them.
C2_HistoryHasNRows ==
  pc \in {"scan", "done"} =>
    /\ Len(mu_t_hist) = i
    /\ Len(tau_t_hist) = i
    /\ \A k \in 1..i : Len(mu_t_hist[k]) = ndims /\ Len(tau_t_hist[k]) = ndims
    /\ (pc = "done" => Len(mu_t_hist) = Len(Phi))

C2_Witness ==
  /\ pc = "done"
  /\ Len(Phi) = 2
  /\ Len(mu_t_hist) = 2
  /\ Len(tau_t_hist) = 2

\* C3: in every reachable state of the filter every entry of the live
\* variance vector, and of every row of the variance history, is strictly
\* positive.
C3_VarianceStrictlyPositive ==
  /\ AllPos(tau_t)
  /\ \A k \in DOMAIN tau_t_hist : AllPos(tau_t_hist[k])

\* C4: a step whose predictive variance v_pred is zero, or whose updated
\* variance has a non-positive or undefined entry, fails with
\* DegenerateUpdateError instead of returning that state.
C4_DegenerateUpdateFails ==
  (frame.row >= 1 /\ (frame.v_t_cond = FromInt(0) \/ ~AllPos(frame.tau_t)))
    => (pc = "error" /\ err = "DegenerateUpdateError")

\* C5: a step whose normalising integral Z is zero, negative or non-finite
\* fails with NumericalIntegrationError and the run aborts.
C5_BadNormaliserFails ==
  (frame.row >= 1 /\ ~IsPos(frame.Zt))
    => (pc = "error" /\ err = "NumericalIntegrationError")

C7_ZeroRowLeavesStateUnchanged ==
  (frame.row >= 1 /\ prior_variance = FromInt(0) /\ frame.Phi_t = zeros(ndims))
    => frame.carry = frame.state_in

\* C9: for v_pred > 0 the state a step returns is, coordinate by
\* coordinate, mean' = mean + a * (M - m_pred) and variance' =
\* variance_pred + a^2 * (V - v_pred), where variance_pred = variance +
\* process_noise (the mean is not changed by the diffusion), m_pred =
\* sum phi*mean, v_pred = sum phi^2*variance_pred and the gain is
\* a = phi * variance_pred / v_pred; M and V are the step's matched moments.
C9_UpdateEquations ==
  Stepped =>
    LET mean == frame.state_in[1]
        variance == frame.state_in[2]
        phi == Phi[i]
        variance_pred == [k \in 1..ndims |-> Add(variance[k], prior_variance)]
        m_pred == VSum([k \in 1..ndims |-> Mul(phi[k], mean[k])])
        v_pred == VSum([k \in 1..ndims |->
                          Mul(Mul(phi[k], phi[k]), variance_pred[k])])
        M == frame.mt
        V == frame.vt
    IN  IsPos(v_pred) =>
          \A k \in 1..ndims :
            LET a_k == Div(Mul(phi[k], variance_pred[k]), v_pred)
            IN  /\ mu_t[k] = Add(mean[k], Mul(a_k, Sub(M, m_pred)))
                /\ tau_t[k] = Add(variance_pred[k], Mul(Mul(a_k, a_k), Sub(V, v_pred)))
                /\ frame.carry = <<mu_t, tau_t>>

C9_Witness ==
  /\ Stepped
  /\ i = 2
  /\ IsPos(frame.v_t_cond)
  /\ prior_variance # FromInt(0)
  /\ frame.state_in # InitState
  /\ \A k \in 1..ndims : Phi[i][k] # FromInt(0) /\ mu_t[k] # frame.state_in[1][k]

\* C10: after every step the last history row is the live state (the pair
\* emitted equals the pair threaded on), so the final state is the last
\* row of both histories; a step appends one row and never alters the rows
\* recorded for earlier observations.
C10_HistoryTracksLiveState ==
  /\ [](Stepped => /\ Len(mu_t_hist) >= 1
                   /\ Len(tau_t_hist) >= 1
                   /\ mu_t_hist[Len(mu_t_hist)] = mu_t
                   /\ tau_t_hist[Len(tau_t_hist)] = tau_t
                   /\ frame.out = frame.carry)
  /\ [][i' # i => /\ mu_t_hist' = Append(mu_t_hist, mu_t')
                  /\ tau_t_hist' = Append(tau_t_hist, tau_t')]_vars

C10_Witness ==
  /\ pc = "done"
  /\ i = 2
  /\ mu_t_hist[2] = mu_t
  /\ tau_t_hist[2] = tau_t
  /\ mu_t_hist[1] # mu_t_hist[2]
  /\ tau_t_hist[1] # tau_t_hist[2]

====
